---- MODULE Spec2Model ----
(***************************************************************************)
(* The conversion wizard of src/src/App.tsx: the React state of App, the   *)
(* timer callbacks that startProcessing schedules, and the two <video>     *)
(* elements of the preview view.                                           *)
(*                                                                         *)
(* One action is one event-loop task: a click handler, a timer callback or *)
(* a media event handler, together with the render that follows it.  The   *)
(* handlers are reachable only through the elements the render shows, so   *)
(* every user action is guarded by the render condition of its element.    *)
(*                                                                         *)
(* Left out: isDragging and the drag handlers, fileInputRef, and the name, *)
(* size and url of the uploaded file; no handler modelled here reads them. *)
(*                                                                         *)
(* overallProgress is a fraction with denominator steps.length; it is held *)
(* in units of 1/NumSteps percent (see Percent), so 12.5% is 50.           *)
(***************************************************************************)
EXTENDS Integers, Sequences, FiniteSets

\* Number of distinct files the user may pick.
MaxVideos == 2

\* The stage list of useState at App.tsx:24-29 has four entries.
NumSteps == 4
\* "100 / 50": 50 iterations per step.
Iterations == 50
\* The delays of setInterval(..., 80) and setTimeout(processStep, 500).
TickDelay == 80
PauseDelay == 500

Videos == 1..MaxVideos
\* uploadedVideo = null
NoVideo == 0

VARIABLES
    currentStep,      \* 'upload' | 'processing' | 'preview' | 'download'
    uploadedVideo,    \* NoVideo or the chosen file
    isPlaying,
    processingSteps,  \* sequence of [progress, completed]
    overallProgress,  \* in units of 1/NumSteps percent
    isProcessing,
    leftVideo,        \* what leftVideoRef.current points at
    rightVideo,       \* what rightVideoRef.current points at
    runs,             \* closures of startProcessing that still own a timer
    observed,         \* history of the current run (events seen since start)
    lastAction,       \* the handler that ran last
    prevAction,       \* the handler that ran before it
    prevIsPlaying     \* isPlaying before the last two handlers

vars == <<currentStep, uploadedVideo, isPlaying, processingSteps, overallProgress,
          isProcessing, leftVideo, rightVideo, runs, observed, lastAction,
          prevAction, prevIsPlaying>>

\* A percentage p in the unit overallProgress is held in.
Percent(p) == p * NumSteps

\* The initial value of processingSteps (name and description never change).
InitialSteps == [i \in 1..NumSteps |-> [progress |-> 0, completed |-> FALSE]]

\* A ref whose element is not mounted (ref.current = null).
NullRef == [attached |-> FALSE, playing |-> FALSE]
\* A freshly mounted <video>: attached and paused.
FreshVideo == [attached |-> TRUE, playing |-> FALSE]

\* Nothing observed yet in this run.
NoHistory == [ticks |-> 0, pauses |-> 0, stageCompletions |-> 0,
              completions |-> 0, boundaries |-> <<>>]

\* The preview section is rendered, and with it both <video> elements.
PreviewRendered(step, video) == step = "preview" /\ video # NoVideo

\* The element a video ref points at after a render: React keeps the element
\* while the preview stays mounted, creates a paused one when it mounts, and
\* nulls the ref when it unmounts.
RenderRef(ref, step, video) ==
    IF PreviewRendered(step, video)
    THEN (IF ref.attached THEN ref ELSE FreshVideo)
    ELSE NullRef

\* HTMLMediaElement.play() and pause() on one element.
Play(el) == [el EXCEPT !.playing = TRUE]
Pause(el) == [el EXCEPT !.playing = FALSE]

Init ==
    /\ currentStep = "upload"
    /\ uploadedVideo = NoVideo
    /\ isPlaying = FALSE
    /\ processingSteps = InitialSteps
    /\ overallProgress = 0
    /\ isProcessing = FALSE
    /\ leftVideo = NullRef
    /\ rightVideo = NullRef
    /\ runs = <<>>
    /\ observed = NoHistory
    /\ lastAction = "init"
    /\ prevAction = "init"
    /\ prevIsPlaying = <<FALSE, FALSE>>

\* Bookkeeping every handler does: which handler ran, and isPlaying before it.
Record(name) ==
    /\ lastAction' = name
    /\ prevAction' = lastAction
    /\ prevIsPlaying' = <<prevIsPlaying[2], isPlaying>>

\* The refs follow the render that ends the handler.
Rerender ==
    /\ leftVideo' = RenderRef(leftVideo, currentStep', uploadedVideo')
    /\ rightVideo' = RenderRef(rightVideo, currentStep', uploadedVideo')


(***************************************************************************)
(* Render conditions: the element that carries each handler.               *)
(***************************************************************************)
\* The file input and the drop zone: upload view, nothing chosen yet.
CanUpload == currentStep = "upload" /\ uploadedVideo = NoVideo
\* Mutant of CanStart: the Start button is also offered after a download.
CanStartAfterDownload ==
    currentStep \in {"upload", "download"} /\ uploadedVideo # NoVideo

\* The card with "Start 3D VR Conversion" and "Choose Different Video".
CanStart == currentStep = "upload" /\ uploadedVideo # NoVideo
\* The play/pause button and "Download 3D VR 180 Video", in the preview.
CanToggle == PreviewRendered(currentStep, uploadedVideo)
CanDownload == PreviewRendered(currentStep, uploadedVideo)
\* Mutant of CanReset: the reset button is offered in every view but upload.
CanResetAnyView == currentStep # "upload"

\* "Convert Another Video", in the preview and in the download view.
CanReset ==
    \/ PreviewRendered(currentStep, uploadedVideo)
    \/ currentStep = "download"

(***************************************************************************)
(* Upload view.                                                            *)
(***************************************************************************)
handleVideoUpload(file) ==
    /\ CanUpload
    /\ uploadedVideo' = file
    /\ Record("handleVideoUpload")
    /\ UNCHANGED <<currentStep, isPlaying, processingSteps, overallProgress,
                   isProcessing, runs, observed>>
    /\ Rerender

\* onClick={() => setUploadedVideo(null)}
chooseDifferentVideo ==
    /\ CanStart
    /\ uploadedVideo' = NoVideo
    /\ Record("chooseDifferentVideo")
    /\ UNCHANGED <<currentStep, isPlaying, processingSteps, overallProgress,
                   isProcessing, runs, observed>>
    /\ Rerender

(***************************************************************************)
(* The stage progress engine: startProcessing and its two callbacks.       *)
(* A closure holds steps (the copied array), currentStepIndex (0-based),   *)
(* step (the 1-based position in steps of the captured `step` object),     *)
(* stepProgress, and timers, the callbacks it has scheduled and that are   *)
(* still pending.                                                          *)
(***************************************************************************)
\* Mutant of ProgressIncrement: 25 iterations per step.
ProgressIncrementCoarse == 100 \div 25

\* const progressIncrement = 100 / 50
ProgressIncrement == 100 \div Iterations

\* The closure as startProcessing creates it, before processStep runs.  The
\* copied array shares its step objects with the state; a callback that
\* writes to one publishes the array with setProcessingSteps in the same
\* task, so the objects are held here by value.
NewClosure(steps) ==
    [steps |-> steps, currentStepIndex |-> 0, step |-> 0, stepProgress |-> 0,
     timers |-> {}]

\* setInterval(..., 80) and setTimeout(processStep, 500)
IntervalTimer == [kind |-> "interval", delay |-> TickDelay]
PauseTimer == [kind |-> "timeout", delay |-> PauseDelay]

\* Mutant of PipelineFinished: the bound is off by one.
PipelineFinishedEarly(c) == c.currentStepIndex >= Len(c.steps) - 1

\* if (currentStepIndex >= steps.length)
PipelineFinished(c) == c.currentStepIndex >= Len(c.steps)

\* Mutant of StageStarted: the step after the current one is captured.
StageStartedSkip(c) ==
    [c EXCEPT !.step = c.currentStepIndex + 2, !.stepProgress = 0,
              !.timers = @ \cup {IntervalTimer}]

\* The closure once processStep has set up the next stage and its interval.
StageStarted(c) ==
    [c EXCEPT !.step = c.currentStepIndex + 1, !.stepProgress = 0,
              !.timers = @ \cup {IntervalTimer}]

\* A closure with no pending timer can never run again: it is garbage.
HasTimer(c) == c.timers # {}
Collect(rs) == SelectSeq(rs, HasTimer)

\* processStep() called on closure k of rs, in a task that has so far set
\* currentStep to step0 and isProcessing to proc0 and observed obs.
processStep(rs, k, obs, step0, proc0) ==
    IF PipelineFinished(rs[k])
    THEN /\ overallProgress' = Percent(100)
         /\ isProcessing' = FALSE
         /\ currentStep' = "preview"
         /\ runs' = Collect(rs)
         /\ observed' = [obs EXCEPT !.completions = @ + 1]
    ELSE /\ overallProgress' = overallProgress
         /\ isProcessing' = proc0
         /\ currentStep' = step0
         /\ runs' = [rs EXCEPT ![k] = StageStarted(rs[k])]
         /\ observed' = obs

startProcessing ==
    /\ CanStart
    /\ processStep(Append(runs, NewClosure(processingSteps)), Len(runs) + 1,
                   NoHistory, "processing", TRUE)
    /\ Record("startProcessing")
    /\ UNCHANGED <<uploadedVideo, isPlaying, processingSteps>>
    /\ Rerender

\* stepProgress += progressIncrement
NextStepProgress(c) == c.stepProgress + ProgressIncrement

\* Mutant of StageDone: > in place of >=, one tick too many per stage.
StageDoneStrict(sp) == sp > 100

\* if (stepProgress >= 100)
StageDone(sp) == sp >= 100

\* Mutant of TimersAfterStage: clearInterval is forgotten.
TimersAfterStageLeaky(timers) == timers \cup {PauseTimer}

\* Mutant of TimersAfterStage: setTimeout(processStep, 500) is forgotten.
TimersAfterStageNoPause(timers) == timers \ {IntervalTimer}

\* clearInterval(stepInterval); ... setTimeout(processStep, 500)
TimersAfterStage(timers) == (timers \ {IntervalTimer}) \cup {PauseTimer}

\* Mutant of CompleteStage: step.completed = true is forgotten.
CompleteStageNoFlag(c) ==
    [c EXCEPT !.stepProgress = 100,
              !.steps[c.step].progress = 100,
              !.currentStepIndex = @ + 1,
              !.timers = TimersAfterStage(@)]

\* The closure after the branch that completes the stage: the step object is
\* set to 100 and completed, the interval is cleared, currentStepIndex++ and
\* the pause is scheduled.
CompleteStage(c) ==
    [c EXCEPT !.stepProgress = 100,
              !.steps[c.step] = [progress |-> 100, completed |-> TRUE],
              !.currentStepIndex = @ + 1,
              !.timers = TimersAfterStage(@)]

\* The closure after the else branch: step.progress = stepProgress.
AdvanceStage(c, sp) ==
    [c EXCEPT !.stepProgress = sp, !.steps[c.step].progress = sp]

\* Mutant of BoundaryProgress: the + 1 is forgotten.
BoundaryProgressOffByOne(c) ==
    (c.currentStepIndex * Percent(100)) \div Len(c.steps)

\* ((currentStepIndex + 1) / steps.length) * 100
BoundaryProgress(c) ==
    ((c.currentStepIndex + 1) * Percent(100)) \div Len(c.steps)

\* Mutant of RunningProgress: the share of the completed stages is left out.
RunningProgressNoBase(c, sp) == Percent(sp) \div Len(c.steps)

\* (currentStepIndex / steps.length) * 100 + (stepProgress / steps.length)
RunningProgress(c, sp) ==
    (c.currentStepIndex * Percent(100)) \div Len(c.steps)
        + Percent(sp) \div Len(c.steps)

\* The setInterval callback of closure k.
stepInterval(k) ==
    /\ k \in 1..Len(runs)
    /\ IntervalTimer \in runs[k].timers
    /\ LET c == runs[k]
           sp == NextStepProgress(c)
       IN IF StageDone(sp)
          THEN /\ runs' = [runs EXCEPT ![k] = CompleteStage(c)]
               /\ processingSteps' = CompleteStage(c).steps
               /\ overallProgress' = BoundaryProgress(c)
               /\ observed' = [observed EXCEPT
                      !.ticks = @ + 1,
                      !.stageCompletions = @ + 1,
                      !.boundaries = Append(@, BoundaryProgress(c))]
          ELSE /\ runs' = [runs EXCEPT ![k] = AdvanceStage(c, sp)]
               /\ processingSteps' = AdvanceStage(c, sp).steps
               /\ overallProgress' = RunningProgress(c, sp)
               /\ observed' = [observed EXCEPT !.ticks = @ + 1]
    /\ Record("stepInterval")
    /\ UNCHANGED <<currentStep, uploadedVideo, isPlaying, isProcessing>>
    /\ Rerender

\* The setTimeout(processStep, 500) callback of closure k.
pauseTimeout(k) ==
    /\ k \in 1..Len(runs)
    /\ PauseTimer \in runs[k].timers
    /\ processStep([runs EXCEPT ![k].timers = @ \ {PauseTimer}], k,
                   [observed EXCEPT !.pauses = @ + 1],
                   currentStep, isProcessing)
    /\ Record("pauseTimeout")
    /\ UNCHANGED <<uploadedVideo, isPlaying, processingSteps>>
    /\ Rerender

\* Mutant of ResetSteps: completed is not cleared.
ResetStepsKeepCompleted(steps) ==
    [i \in 1..Len(steps) |-> [steps[i] EXCEPT !.progress = 0]]

\* processingSteps.map(step => ({...step, progress: 0, completed: false}))
ResetSteps(steps) ==
    [i \in 1..Len(steps) |-> [progress |-> 0, completed |-> FALSE]]

\* Mutant of resetProcess: setOverallProgress(0) is forgotten.
resetProcessKeepsOverall ==
    /\ CanReset
    /\ currentStep' = "upload"
    /\ uploadedVideo' = NoVideo
    /\ isProcessing' = FALSE
    /\ processingSteps' = ResetSteps(processingSteps)
    /\ Record("resetProcess")
    /\ UNCHANGED <<isPlaying, overallProgress, runs, observed>>
    /\ Rerender

resetProcess ==
    /\ CanReset
    /\ currentStep' = "upload"
    /\ uploadedVideo' = NoVideo
    /\ isProcessing' = FALSE
    /\ overallProgress' = 0
    /\ processingSteps' = ResetSteps(processingSteps)
    /\ Record("resetProcess")
    /\ UNCHANGED <<isPlaying, runs, observed>>
    /\ Rerender

\* Mutant of downloadVideo: the asset is released once the link was clicked.
downloadVideoReleasesAsset ==
    /\ CanDownload
    /\ currentStep' = "download"
    /\ uploadedVideo' = NoVideo
    /\ Record("downloadVideo")
    /\ UNCHANGED <<isPlaying, processingSteps, overallProgress,
                   isProcessing, runs, observed>>
    /\ Rerender

downloadVideo ==
    /\ CanDownload
    /\ currentStep' = "download"
    /\ Record("downloadVideo")
    /\ UNCHANGED <<uploadedVideo, isPlaying, processingSteps, overallProgress,
                   isProcessing, runs, observed>>
    /\ Rerender

(***************************************************************************)
(* Preview: the two video elements and the play/pause button.              *)
(***************************************************************************)
\* Mutant of BothAttached: only the left ref is tested.
LeftAttached == leftVideo.attached

\* if (leftVideo && rightVideo)
BothAttached == leftVideo.attached /\ rightVideo.attached

\* Mutant of togglePlayback: only the left view is commanded.
togglePlaybackLeftOnly ==
    /\ CanToggle
    /\ IF BothAttached
       THEN IF isPlaying
            THEN /\ leftVideo' = Pause(leftVideo)
                 /\ isPlaying' = FALSE
            ELSE /\ leftVideo' = Play(leftVideo)
                 /\ isPlaying' = TRUE
       ELSE UNCHANGED <<leftVideo, isPlaying>>
    /\ Record("togglePlayback")
    /\ UNCHANGED <<currentStep, uploadedVideo, processingSteps, overallProgress,
                   isProcessing, rightVideo, runs, observed>>

\* The body of togglePlayback, whatever the refs point at.
togglePlaybackHandler ==
    /\ IF BothAttached
       THEN IF isPlaying
            THEN /\ leftVideo' = Pause(leftVideo)
                 /\ rightVideo' = Pause(rightVideo)
                 /\ isPlaying' = FALSE
            ELSE /\ leftVideo' = Play(leftVideo)
                 /\ rightVideo' = Play(rightVideo)
                 /\ isPlaying' = TRUE
       ELSE UNCHANGED <<leftVideo, rightVideo, isPlaying>>
    /\ Record("togglePlayback")
    /\ UNCHANGED <<currentStep, uploadedVideo, processingSteps, overallProgress,
                   isProcessing, runs, observed>>

\* togglePlayback as the click handler of the play/pause button.
togglePlayback == CanToggle /\ togglePlaybackHandler

\* Mutant of leftVideoEnded: the left <video> carries no onEnded handler.
leftVideoEndedUnbound ==
    /\ leftVideo.attached /\ leftVideo.playing
    /\ leftVideo' = Pause(leftVideo)
    /\ Record("handleVideoEnd")
    /\ UNCHANGED <<currentStep, uploadedVideo, isPlaying, processingSteps,
                   overallProgress, isProcessing, rightVideo, runs, observed>>

\* A playing element reaches the end of its media: it stops, and its onEnded
\* handler runs.  Each element ends on its own.
leftVideoEnded ==
    /\ leftVideo.attached /\ leftVideo.playing
    /\ leftVideo' = Pause(leftVideo)
    /\ isPlaying' = FALSE
    /\ Record("handleVideoEnd")
    /\ UNCHANGED <<currentStep, uploadedVideo, processingSteps, overallProgress,
                   isProcessing, rightVideo, runs, observed>>

rightVideoEnded ==
    /\ rightVideo.attached /\ rightVideo.playing
    /\ rightVideo' = Pause(rightVideo)
    /\ isPlaying' = FALSE
    /\ Record("handleVideoEnd")
    /\ UNCHANGED <<currentStep, uploadedVideo, processingSteps, overallProgress,
                   isProcessing, leftVideo, runs, observed>>

Next ==
    \/ \E file \in Videos : handleVideoUpload(file)
    \/ chooseDifferentVideo
    \/ startProcessing
    \/ \E k \in 1..Len(runs) : stepInterval(k)
    \/ \E k \in 1..Len(runs) : pauseTimeout(k)
    \/ resetProcess
    \/ downloadVideo
    \/ togglePlayback
    \/ leftVideoEnded
    \/ rightVideoEnded

(***************************************************************************)
(* The playback controller on its own: togglePlayback and handleVideoEnd   *)
(* applied to every combination of what they read, each ref null or        *)
(* pointing at a paused or playing element, isPlaying true or false.       *)
(* Through the rendered button togglePlayback runs only with both refs     *)
(* attached (see CanToggle); this specification also calls it without.     *)
(***************************************************************************)
RefStates == {NullRef, FreshVideo, Play(FreshVideo)}

PlaybackInit ==
    /\ currentStep \in {"upload", "processing", "preview", "download"}
    /\ uploadedVideo \in Videos
    /\ isPlaying \in BOOLEAN
    /\ processingSteps = InitialSteps
    /\ overallProgress = 0
    /\ isProcessing = FALSE
    /\ leftVideo \in RefStates
    /\ rightVideo \in RefStates
    /\ runs = <<>>
    /\ observed = NoHistory
    /\ lastAction = "init"
    /\ prevAction = "init"
    /\ prevIsPlaying = <<FALSE, FALSE>>

PlaybackNext ==
    \/ togglePlaybackHandler
    \/ leftVideoEnded
    \/ rightVideoEnded

PlaybackSpec == PlaybackInit /\ [][PlaybackNext]_vars

Spec == Init /\ [][Next]_vars

\* Every pending timer callback eventually runs: the browser's event loop
\* fires each interval and timeout that has not been cleared.
FairSpec ==
    /\ Spec
    /\ WF_vars(\E k \in 1..Len(runs) : stepInterval(k))
    /\ WF_vars(\E k \in 1..Len(runs) : pauseTimeout(k))


(***************************************************************************)
(* Vocabulary of the properties.                                           *)
(***************************************************************************)
AllCompleted == \A i \in 1..Len(processingSteps) : processingSteps[i].completed

\* Every stage at progress 0 and not completed, overallProgress 0, not running.
IdleSnapshot ==
    /\ overallProgress = 0
    /\ \A i \in 1..Len(processingSteps) :
           processingSteps[i] = [progress |-> 0, completed |-> FALSE]
    /\ isProcessing = FALSE

\* The timers pending over all closures.
PendingTimers ==
    {p \in (1..Len(runs)) \X {IntervalTimer, PauseTimer} : p[2] \in runs[p[1]].timers}

\* Complete: the completion branch of processStep has run.
RunComplete == isProcessing = FALSE /\ currentStep = "preview"

(***************************************************************************)
(* C1.  Within one run (from startProcessing until the next resetProcess)  *)
(* overallProgress never decreases, and it is 100 only in states where     *)
(* every stage is completed.                                               *)
(***************************************************************************)
C1_OverallProgressMonotone ==
    /\ [](overallProgress = Percent(100) => AllCompleted)
    /\ [][lastAction' # "resetProcess" => overallProgress' >= overallProgress]_vars

\* The second stage is advancing: overallProgress has passed a boundary.
C1_Witness ==
    /\ isProcessing
    /\ processingSteps[1].completed
    /\ processingSteps[2].progress \in 1..99
    /\ overallProgress > Percent(25)

(***************************************************************************)
(* C2.  A run over N stages signals completion exactly once, only after    *)
(* exactly N stage completions, and no timer callback of the run fires     *)
(* after the completion signal.                                            *)
(***************************************************************************)
C2_CompletionOnce ==
    /\ [](observed.completions <= 1)
    /\ [](observed.completions = 1 =>
              /\ observed.stageCompletions = NumSteps
              /\ PendingTimers = {})
    /\ [](RunComplete => observed.completions = 1)
    /\ [][observed.completions = 1 =>
              lastAction' \notin {"stepInterval", "pauseTimeout"}]_vars

\* The completion signal has just been given.
C2_Witness ==
    /\ lastAction = "pauseTimeout"
    /\ RunComplete
    /\ observed.completions = 1
    /\ observed.stageCompletions = NumSteps

(***************************************************************************)
(* C3 as claimed.  No pause follows the last stage: a 4-stage run is       *)
(* complete after exactly 200 ticks and exactly 3 inter-stage pauses.      *)
(***************************************************************************)
C3_Original ==
    /\ observed.completions = 1 =>
           /\ observed.ticks = NumSteps * Iterations
           /\ observed.pauses = NumSteps - 1
    /\ AllCompleted => PendingTimers = {}

(***************************************************************************)
(* C3 as amended.  Every stage completion, the last included, is followed  *)
(* by one 500ms pause, and the next stage advances (or the run completes)  *)
(* only when that pause fires: a 4-stage run is complete after exactly 200 *)
(* ticks and exactly 4 pauses.                                             *)
(***************************************************************************)
C3_PauseAfterEveryStage ==
    /\ observed.completions = 1 =>
           /\ observed.ticks = NumSteps * Iterations
           /\ observed.pauses = NumSteps
    /\ \A k \in 1..Len(runs) :
           /\ PauseTimer \in runs[k].timers =>
                  /\ observed.stageCompletions = observed.pauses + 1
                  /\ observed.ticks = observed.stageCompletions * Iterations
                  /\ PauseTimer.delay = 500
           /\ IntervalTimer \in runs[k].timers =>
                  /\ observed.stageCompletions = observed.pauses
                  /\ observed.ticks \in (observed.pauses * Iterations)
                                          ..(observed.pauses * Iterations + Iterations - 1)

\* The run is complete, the pause after the last stage having fired.
C3_Witness ==
    /\ observed.completions = 1
    /\ observed.pauses = NumSteps
    /\ lastAction = "pauseTimeout"

(***************************************************************************)
(* C4.  After resetProcess the run stays in the Idle snapshot until the    *)
(* next startProcessing: no interval or timeout of an earlier run is       *)
(* pending, and no later step changes the stages, overallProgress,         *)
(* isProcessing or the view.                                               *)
(***************************************************************************)
C4_ResetLeavesNothingPending ==
    currentStep = "upload" =>
        /\ PendingTimers = {}
        /\ runs = <<>>
        /\ IdleSnapshot

\* A file was chosen after a reset, and the snapshot is still Idle.
C4_Witness ==
    /\ prevAction = "resetProcess"
    /\ lastAction = "handleVideoUpload"
    /\ currentStep = "upload"
    /\ observed.completions = 1

(***************************************************************************)
(* C5.  Immediately after resetProcess: overallProgress = 0, every stage   *)
(* has progress 0 and completed = false, isProcessing is false and the     *)
(* wizard shows the upload view.                                           *)
(***************************************************************************)
C5_ResetYieldsIdle ==
    lastAction = "resetProcess" =>
        /\ overallProgress = 0
        /\ \A i \in 1..NumSteps :
               processingSteps[i].progress = 0 /\ ~processingSteps[i].completed
        /\ Len(processingSteps) = NumSteps
        /\ ~isProcessing
        /\ currentStep = "upload"

\* resetProcess has just run, from the download view of a finished run.
C5_Witness ==
    /\ lastAction = "resetProcess"
    /\ prevAction = "downloadVideo"
    /\ observed.stageCompletions = NumSteps


(***************************************************************************)
(* C7.  When stage i (0-based) of N reaches 100, the same step marks it    *)
(* completed and sets overallProgress to exactly 100*(i+1)/N; for the four *)
(* built-in stages the values at the stage completions are 25, 50, 75,     *)
(* 100, in that order.                                                     *)
(***************************************************************************)
BoundaryValues == <<Percent(25), Percent(50), Percent(75), Percent(100)>>

C7_BoundaryValues ==
    /\ Len(observed.boundaries) = observed.stageCompletions
    /\ Len(observed.boundaries) <= NumSteps
    /\ observed.boundaries = SubSeq(BoundaryValues, 1, Len(observed.boundaries))
    /\ \A i \in 1..Len(processingSteps) :
           processingSteps[i].progress = 100 <=> processingSteps[i].completed
    /\ (lastAction = "stepInterval" /\ PauseTimer \in runs[1].timers) =>
           /\ processingSteps[observed.stageCompletions].completed
           /\ processingSteps[observed.stageCompletions].progress = 100
           /\ overallProgress * NumSteps = Percent(100) * observed.stageCompletions

\* The third stage has just reached 100: overallProgress is 75.
C7_Witness ==
    /\ lastAction = "stepInterval"
    /\ observed.stageCompletions = 3
    /\ observed.boundaries = <<Percent(25), Percent(50), Percent(75)>>
    /\ overallProgress = Percent(75)
    /\ processingSteps[3].completed /\ ~processingSteps[4].completed

(***************************************************************************)
(* C8 as claimed.  The run is Complete at the moment the last stage is     *)
(* completed: in no reachable state is every stage completed while the run *)
(* is still Running.                                                       *)
(***************************************************************************)
C8_Original == AllCompleted => ~isProcessing

(***************************************************************************)
(* C8 as amended.  The run becomes Complete (isProcessing false, wizard in *)
(* preview) when the pause timeout scheduled by the last stage's           *)
(* completion fires: the wizard is in preview only with every stage        *)
(* completed, and while every stage is completed and the run is still      *)
(* Running, exactly that one timeout is pending in the processing view.    *)
(***************************************************************************)
C8_CompleteAfterLastPause ==
    /\ RunComplete => AllCompleted
    /\ currentStep = "preview" => RunComplete
    /\ (AllCompleted /\ isProcessing) =>
           /\ currentStep = "processing"
           /\ Len(runs) = 1
           /\ runs[1].timers = {PauseTimer}
           /\ observed.completions = 0
    /\ (AllCompleted /\ lastAction = "pauseTimeout") => RunComplete

\* Every stage is completed and the run is still Running.
C8_Witness ==
    /\ AllCompleted
    /\ isProcessing
    /\ currentStep = "processing"
    /\ lastAction = "stepInterval"

(***************************************************************************)
(* C9 as claimed.  Whenever both video views are attached, the left and    *)
(* the right view have the same playing state, and it equals isPlaying.    *)
(* A view counts as playing from play() until pause() or its end.          *)
(***************************************************************************)
C9_Original ==
    BothAttached =>
        /\ leftVideo.playing = rightVideo.playing
        /\ leftVideo.playing = isPlaying

(***************************************************************************)
(* C10.  After any togglePlayback call the left view, the right view and   *)
(* isPlaying agree, both views having been given the same command; and two *)
(* consecutive togglePlayback calls return isPlaying to its value before   *)
(* the first.                                                              *)
(***************************************************************************)
C10_ToggleSynchronizes ==
    /\ lastAction = "togglePlayback" =>
           /\ BothAttached
           /\ leftVideo.playing = isPlaying
           /\ rightVideo.playing = isPlaying
           /\ isPlaying = ~prevIsPlaying[2]
    /\ (lastAction = "togglePlayback" /\ prevAction = "togglePlayback") =>
           isPlaying = prevIsPlaying[1]

\* Two toggles in a row, the first of which started playback.
C10_Witness ==
    /\ lastAction = "togglePlayback"
    /\ prevAction = "togglePlayback"
    /\ prevIsPlaying = <<FALSE, TRUE>>
    /\ ~isPlaying /\ ~leftVideo.playing /\ ~rightVideo.playing

(***************************************************************************)
(* C11.  An ended event from the left or from the right view sets          *)
(* isPlaying to false, whatever it was before and whichever view reported  *)
(* it, and changes nothing else of the wizard or of the pipeline.          *)
(***************************************************************************)
C11_EndedStopsPlayback ==
    [][lastAction' = "handleVideoEnd" =>
           /\ isPlaying' = FALSE
           /\ UNCHANGED <<currentStep, uploadedVideo, processingSteps,
                          overallProgress, isProcessing, runs, observed>>]_vars

\* Both views have reported their end, one after the other: isPlaying was
\* true before the first event and already false before the second.
C11_Witness ==
    /\ lastAction = "handleVideoEnd"
    /\ prevAction = "handleVideoEnd"
    /\ prevIsPlaying = <<TRUE, FALSE>>
    /\ ~isPlaying
    /\ ~leftVideo.playing /\ ~rightVideo.playing

(***************************************************************************)
(* C12.  togglePlayback called while the left or the right view handle is  *)
(* not attached is a no-op: isPlaying is unchanged and neither view is     *)
(* given a play or pause command.                                          *)
(***************************************************************************)
C12_ToggleWithoutViews ==
    [][(lastAction' = "togglePlayback"
            /\ (~leftVideo.attached \/ ~rightVideo.attached)) =>
           UNCHANGED <<isPlaying, leftVideo, rightVideo>>]_vars

\* togglePlayback has run with the right ref null and the left view playing:
\* the left view still plays and isPlaying is what it was.
C12_Witness ==
    /\ lastAction = "togglePlayback"
    /\ leftVideo = Play(FreshVideo)
    /\ rightVideo = NullRef
    /\ isPlaying = prevIsPlaying[2]

(***************************************************************************)
(* C13.  Every stage has progress in 0..100 and is completed exactly when  *)
(* its progress is 100; within one run (no resetProcess) a stage's         *)
(* progress never decreases and completed never goes back to false.        *)
(***************************************************************************)
C13_StageProgressMonotone ==
    /\ [](\A i \in 1..Len(processingSteps) :
              /\ processingSteps[i].progress \in 0..100
              /\ processingSteps[i].completed <=> processingSteps[i].progress = 100)
    /\ [][lastAction' # "resetProcess" =>
              /\ Len(processingSteps') = Len(processingSteps)
              /\ \A i \in 1..Len(processingSteps) :
                     /\ processingSteps'[i].progress >= processingSteps[i].progress
                     /\ processingSteps[i].completed => processingSteps'[i].completed]_vars

\* The tick before a stage's last: progress 98, not yet completed.
C13_Witness ==
    /\ lastAction = "stepInterval"
    /\ processingSteps[1].completed
    /\ processingSteps[2].progress = 98 /\ ~processingSteps[2].completed

(***************************************************************************)
(* C14.  Stages advance strictly in order: a stage has progress > 0 only   *)
(* if the stage before it is completed, so at most one stage is partially  *)
(* advanced, every stage before it is completed and every stage after it   *)
(* is at 0.                                                                *)
(***************************************************************************)
Partial(i) == processingSteps[i].progress > 0 /\ processingSteps[i].progress < 100

C14_StagesInOrder ==
    /\ \A i \in 1..(Len(processingSteps) - 1) :
           processingSteps[i + 1].progress > 0 => processingSteps[i].completed
    /\ Cardinality({i \in 1..Len(processingSteps) : Partial(i)}) <= 1
    /\ \A i \in 1..Len(processingSteps) :
           Partial(i) =>
               /\ \A j \in 1..(i - 1) : processingSteps[j].completed
               /\ \A j \in (i + 1)..Len(processingSteps) : processingSteps[j].progress = 0

\* The third stage is partially advanced.
C14_Witness ==
    /\ Partial(3)
    /\ processingSteps[1].completed /\ processingSteps[2].completed
    /\ processingSteps[4].progress = 0

(***************************************************************************)
(* C15.  Every run, a second or later one included, begins with every      *)
(* stage at progress 0, completed = false, and overallProgress = 0:        *)
(* startProcessing is never offered in a state that holds progress of an   *)
(* earlier run.                                                            *)
(***************************************************************************)
AllStagesFresh ==
    /\ overallProgress = 0
    /\ \A i \in 1..Len(processingSteps) :
           processingSteps[i].progress = 0 /\ ~processingSteps[i].completed

C15_RunStartsFresh ==
    /\ CanStart => AllStagesFresh
    /\ lastAction = "startProcessing" =>
           /\ AllStagesFresh
           /\ Len(runs) = 1
           /\ runs[1].steps = processingSteps

\* startProcessing has just run a second time: isPlaying is true only after
\* the play button of an earlier preview was clicked.
C15_Witness ==
    /\ lastAction = "startProcessing"
    /\ isPlaying
    /\ isProcessing

(***************************************************************************)
(* C16.  The wizard is in preview only with every stage completed,         *)
(* overallProgress = 100 and isProcessing false, and the view moves only   *)
(* upload -> processing (startProcessing), processing -> preview           *)
(* (completion), preview -> download (downloadVideo) and preview or        *)
(* download -> upload (resetProcess).                                      *)
(***************************************************************************)
ViewMoves ==
    {<<"upload", "processing", "startProcessing">>,
     <<"processing", "preview", "pauseTimeout">>,
     <<"preview", "download", "downloadVideo">>,
     <<"preview", "upload", "resetProcess">>,
     <<"download", "upload", "resetProcess">>}

C16_ViewTransitions ==
    /\ [](currentStep = "preview" =>
              /\ AllCompleted
              /\ overallProgress = Percent(100)
              /\ ~isProcessing
              /\ observed.completions = 1)
    /\ [][currentStep' # currentStep =>
              <<currentStep, currentStep', lastAction'>> \in ViewMoves]_vars

\* The download view, reached from the preview of a completed run.
C16_Witness ==
    /\ currentStep = "download"
    /\ lastAction = "downloadVideo"
    /\ AllCompleted
    /\ overallProgress = Percent(100)

(***************************************************************************)
(* C17.  Under fair firing of the scheduled timer callbacks every started  *)
(* run that is not reset reaches Complete (every stage completed,          *)
(* overallProgress = 100, wizard in preview), and a started run is never   *)
(* left without a pending callback before it completes.                    *)
(***************************************************************************)
C17_RunTerminates ==
    /\ [](isProcessing => PendingTimers # {})
    /\ isProcessing ~> (RunComplete /\ AllCompleted /\ overallProgress = Percent(100))

\* A run that was started has completed and left nothing pending.
C17_Witness ==
    /\ RunComplete
    /\ AllCompleted
    /\ overallProgress = Percent(100)
    /\ PendingTimers = {}
    /\ observed.ticks = NumSteps * Iterations

(***************************************************************************)
(* C18.  Each stage takes exactly 50 ticks from 0 to 100: after the k-th   *)
(* tick of a stage its progress is 2*k, it is completed on the 50th tick   *)
(* and on none before, and its interval is cleared on that tick, so there  *)
(* is no 51st.                                                             *)
(***************************************************************************)
\* How many ticks of the current run fell into stage i (1-based).
TicksOfStage(i) ==
    IF observed.ticks <= 50 * (i - 1) THEN 0
    ELSE IF observed.ticks >= 50 * i THEN 50
    ELSE observed.ticks - 50 * (i - 1)

C18_FiftyTicksPerStage ==
    currentStep # "upload" =>
        /\ observed.ticks <= 50 * NumSteps
        /\ \A i \in 1..NumSteps :
               /\ processingSteps[i].progress = 2 * TicksOfStage(i)
               /\ processingSteps[i].completed <=> TicksOfStage(i) = 50
        /\ \A k \in 1..Len(runs) :
               IntervalTimer \in runs[k].timers =>
                   runs[k].stepProgress = 2 * TicksOfStage(runs[k].step)
                       /\ runs[k].stepProgress < 100
        /\ (lastAction = "stepInterval" /\ observed.ticks = 50 * observed.stageCompletions) =>
               \A k \in 1..Len(runs) : IntervalTimer \notin runs[k].timers

\* The 50th tick of the second stage: completed, interval cleared.
C18_Witness ==
    /\ lastAction = "stepInterval"
    /\ observed.ticks = 100
    /\ processingSteps[2].progress = 100 /\ processingSteps[2].completed
    /\ PendingTimers = {<<1, PauseTimer>>}

(***************************************************************************)
(* C19.  In every state overallProgress equals                             *)
(* 100 * (completed stages + progress of the advancing stage / 100) / N,   *)
(* computed from the stages of the same state.                             *)
(***************************************************************************)
CompletedCount ==
    Cardinality({i \in 1..Len(processingSteps) : processingSteps[i].completed})

\* The progress of the stage that is advancing, 0 if none is.
CurrentStageProgress ==
    IF \E i \in 1..Len(processingSteps) : Partial(i)
    THEN processingSteps[CHOOSE i \in 1..Len(processingSteps) : Partial(i)].progress
    ELSE 0

C19_OverallIsDerived ==
    overallProgress * Len(processingSteps)
        = Percent(100 * CompletedCount + CurrentStageProgress)

\* Two stages completed and the third at 34: overallProgress is 58.5.
C19_Witness ==
    /\ CompletedCount = 2
    /\ CurrentStageProgress = 34
    /\ 2 * overallProgress = Percent(117)

(***************************************************************************)
(* C20.  During a run at most one scheduled callback is pending: the       *)
(* interval of the current stage or one pause timeout, never both and      *)
(* never two intervals; the pause is scheduled in the tick that clears the *)
(* interval, and an interval is created only when nothing else is pending. *)
(***************************************************************************)
C20_OnePendingCallback ==
    /\ [](Cardinality(PendingTimers) <= 1 /\ Len(runs) <= 1)
    /\ [](isProcessing => Cardinality(PendingTimers) = 1)
    /\ [][lastAction' = "startProcessing" => PendingTimers = {}]_vars
    /\ [][lastAction' = "pauseTimeout" => PendingTimers = {<<1, PauseTimer>>}]_vars
    /\ [][(lastAction' = "stepInterval" /\ PendingTimers' # PendingTimers) =>
              /\ PendingTimers = {<<1, IntervalTimer>>}
              /\ PendingTimers' = {<<1, PauseTimer>>}]_vars

\* Between two stages: the pause is the only callback pending.
C20_Witness ==
    /\ isProcessing
    /\ observed.stageCompletions = 2
    /\ observed.pauses = 1
    /\ PendingTimers = {<<1, PauseTimer>>}

(***************************************************************************)
(* C21 as claimed.  Every time the preview is mounted (the wizard enters   *)
(* preview) isPlaying is false, like the freshly mounted, paused views:    *)
(* isPlaying set in an earlier preview does not survive leaving it through *)
(* downloadVideo or resetProcess.                                          *)
(***************************************************************************)
C21_Original ==
    (currentStep = "preview" /\ lastAction = "pauseTimeout") =>
        /\ leftVideo = FreshVideo
        /\ rightVideo = FreshVideo
        /\ isPlaying = FALSE

(***************************************************************************)
(* C22.  The uploaded asset is non-null and unchanged from startProcessing *)
(* until resetProcess: no tick, pause, completion, toggle, ended or        *)
(* download step writes uploadedVideo, so in the processing, preview and   *)
(* download views the asset chosen at the start is the one held.           *)
(***************************************************************************)
C22_AssetHeldUntilReset ==
    /\ [](currentStep \in {"processing", "preview", "download"} =>
              uploadedVideo \in Videos)
    /\ [][lastAction' = "startProcessing" =>
              uploadedVideo' = uploadedVideo /\ uploadedVideo \in Videos]_vars
    /\ [][(currentStep # "upload" /\ lastAction' # "resetProcess") =>
              uploadedVideo' = uploadedVideo]_vars
    /\ [][lastAction' \in {"stepInterval", "pauseTimeout", "togglePlayback",
                           "handleVideoEnd", "downloadVideo"} =>
              uploadedVideo' = uploadedVideo]_vars

\* The download view after playback in the preview: the second file, chosen
\* before the start, is still held.
C22_Witness ==
    /\ currentStep = "download"
    /\ lastAction = "downloadVideo"
    /\ prevAction = "handleVideoEnd"
    /\ uploadedVideo = 2

====
